---- MODULE Spec2Model ----
(***************************************************************************)
(* Model of the process-mining visual in src/src/visual.ts.  The file      *)
(* holds four snapshots of the Visual class:                               *)
(*   variant 1 (lines 56-259)   fetch-aware update, key from + "," + to    *)
(*   variant 2 (lines 315-461)  threshold filter,   key from + "->" + to   *)
(*   variant 3 (lines 509-633)  no durations,       key from + "->" + to   *)
(*   variant 4 (lines 685-862)  path-signature mode (cases, ranked groups) *)
(* A Visual instance is one of the four; `variant` is fixed at             *)
(* construction.  Every update handler is one action.                      *)
(***************************************************************************)
EXTENDS Integers, Sequences, FiniteSets, TLC

VARIABLES
    variant,               \* which snapshot of the class this instance is
    relationships,         \* Map<string, Relationship>, in insertion order
    activityEvents,        \* Array<ActivityEvent>        (variant 4)
    cases,                 \* Array<Case>                 (variant 4)
    sortedCaseIdsPerPath,  \* Array<Array<caseId>>        (variant 4)
    textNode,              \* the status message shown    (variant 1)
    graph,                 \* the graph last handed to the renderer
    options,               \* the VisualUpdateOptions of the pending / last call
    pending,               \* TRUE while `options` has not been delivered yet
    calls,                 \* collaborator calls made by the last update call
    error                  \* "none", or the exception the last update threw

vars == <<variant, relationships, activityEvents, cases, sortedCaseIdsPerPath,
          textNode, graph, options, pending, calls, error>>

(***************************************************************************)
(* Bounds of the model.                                                    *)
(***************************************************************************)
MaxRows == 2        \* rows per table, specification Spec (sequences of updates)
MaxRowsFill == 3    \* rows per table, specification SpecFill (variants 1-3)
MaxRowsPath == 4    \* rows per table, specification SpecPath (variant 4)
MaxRowsRender == 3  \* rows per table, specification SpecRender (variants 1-3)
MaxRowsFlag == 2    \* rows per table, specification SpecFlag (variants 1-3)

Variants == {1, 2, 3, 4}

(***************************************************************************)
(* Host cells (powerbi.PrimitiveValue) and JavaScript numbers.             *)
(***************************************************************************)
NumCell(n) == [t |-> "number", n |-> n, s |-> "", b |-> FALSE]
StrCell(s) == [t |-> "string", n |-> 0, s |-> s, b |-> FALSE]
BoolCell(b) == [t |-> "boolean", n |-> 0, s |-> "", b |-> b]
NullCell == [t |-> "null", n |-> 0, s |-> "", b |-> FALSE]

NaN == [nan |-> TRUE, v |-> 0]
Num(n) == [nan |-> FALSE, v |-> n]

\* unary plus: +cell
ToNumber(cell) ==
    CASE cell.t = "number" -> Num(cell.n)
      [] cell.t = "boolean" -> Num(IF cell.b THEN 1 ELSE 0)
      [] cell.t = "null" -> Num(0)
      [] OTHER -> IF cell.s = "" THEN Num(0) ELSE NaN   \* only non-numeric strings are modelled

\* if (cell): JavaScript truthiness
Truthy(cell) ==
    CASE cell.t = "number" -> cell.n # 0
      [] cell.t = "boolean" -> cell.b
      [] cell.t = "null" -> FALSE
      [] OTHER -> cell.s # ""

\* cell.toString() throws a TypeError on null / undefined
ToStringThrows(cell) == cell.t = "null"

\* cell.toString() of a boolean or string cell
CellToString(cell) ==
    CASE cell.t = "boolean" -> (IF cell.b THEN "true" ELSE "false")
      [] OTHER -> cell.s

(***************************************************************************)
(* fillRelationships (variants 1, 2, 3).                                   *)
(***************************************************************************)
\* let key = from + "," + to;   /   let key = from + "->" + to;
Key(v, from, to) == IF v = 1 THEN from \o "," \o to ELSE from \o "->" \o to

\* ihp = row[4];   /   ihp = (row[4].toString() === 'true');
IsHappy(v, cell) == IF v = 1 THEN Truthy(cell) ELSE CellToString(cell) = "true"

\* does evaluating the row's cells throw before the map is touched?
RowThrows(v, row) == v # 1 /\ ToStringThrows(row.ihp)

\* this.relationships.has(key)
MapHas(map, key) == \E i \in 1..Len(map) : map[i].key = key

\* index of the entry this.relationships.get(key) returns
MapIndex(map, key) == CHOOSE i \in 1..Len(map) : map[i].key = key

\* mutant of MapClear: the map is not emptied at the start of update
MapKeep(map) == map

\* this.relationships.clear()
MapClear(map) == <<>>

\* the durations a variant records for a row: variant 3 has no durations field
RowDurations(v, row) == IF v = 3 THEN <<>> ELSE <<ToNumber(row.duration)>>

\* the Relationship created on the first occurrence of a key
NewRelationship(v, key, row) ==
    [key |-> key, from |-> row.from, to |-> row.to, amount |-> 1,
     isHappyPath |-> FALSE, caseIds |-> <<row.caseId>>,
     durations |-> RowDurations(v, row)]

\* mutant of Accumulate: the caseId of a repeated key is not pushed
AccumulateNoPush(v, rel, row) ==
    [rel EXCEPT !.amount = @ + 1, !.durations = @ \o RowDurations(v, row)]

\* rel.amount++; rel.caseIds.push(caseId); rel.durations.push(duration);
Accumulate(v, rel, row) ==
    [rel EXCEPT !.amount = @ + 1,
                !.caseIds = Append(@, row.caseId),
                !.durations = @ \o RowDurations(v, row)]

\* the body of table.rows.forEach(row => ...) for one row
FillRow(v, st, row) ==
    LET key == Key(v, row.from, row.to)
        hp == IF IsHappy(v, row.ihp) THEN Append(st.happyPath, key) ELSE st.happyPath
    IN  IF RowThrows(v, row)
        THEN [st EXCEPT !.error = "TypeError: toString of null"]
        ELSE IF ~MapHas(st.map, key)
        THEN [st EXCEPT !.map = Append(@, NewRelationship(v, key, row)),
                        !.happyPath = hp]
        ELSE LET i == MapIndex(st.map, key)
             IN  [st EXCEPT !.map[i] = Accumulate(v, @, row),
                            !.happyPath = hp]

RECURSIVE FillRows(_, _, _, _)
FillRows(v, st, rows, i) ==
    IF i > Len(rows) \/ st.error # "none"
    THEN st
    ELSE FillRows(v, FillRow(v, st, rows[i]), rows, i + 1)

\* mutant of MarkHappy: the marking pass leaves the Relationship unmarked
MarkHappySkip(st, key) == st

\* this.relationships.get(key).isHappyPath = true
MarkHappy(st, key) ==
    IF ~MapHas(st.map, key)
    THEN [st EXCEPT !.error = "TypeError: get(key) is undefined"]
    ELSE [st EXCEPT !.map[MapIndex(st.map, key)].isHappyPath = TRUE]

RECURSIVE MarkAll(_, _)
MarkAll(st, i) ==
    IF i > Len(st.happyPath) \/ st.error # "none"
    THEN st
    ELSE MarkAll(MarkHappy(st, st.happyPath[i]), i + 1)

\* fillRelationships(table): the first pass over the rows, then the marking pass
fillRelationships(v, map, rows) ==
    LET st0 == [map |-> map, happyPath |-> <<>>, error |-> "none"]
        st1 == FillRows(v, st0, rows, 1)
    IN  IF st1.error # "none" THEN st1 ELSE MarkAll(st1, 1)

(***************************************************************************)
(* Rendering (variants 1, 2, 3): the graph handed to dagreD3.render.       *)
(* An edge is keyed by its (from, to) node pair; its label is kept as its  *)
(* parts.  pct is in tenths of a percent; meanShown tells whether the      *)
(* label has the "AND mean duration = ..." part, mean is the number in it. *)
(***************************************************************************)
EmptyGraph == [nodes |-> {}, edges |-> {}]

\* rel.amount / 0: larger than every percentage and every threshold
Infinity == 10 ^ 9

\* Math.round(num / den) for den > 0
Round(num, den) == (2 * num + den) \div (2 * den)

\* caseIds = [...new Set(caseIds)]; caseIds.length
DistinctCaseCount(rows) == Cardinality({rows[i].caseId : i \in 1..Len(rows)})

RECURSIVE Total(_, _)
Total(durations, i) ==
    IF i > Len(durations) THEN 0 ELSE durations[i].v + Total(durations, i + 1)

\* Math.round(this.calculateDurationStatistics(rel.durations))
calculateDurationStatistics(durations) ==
    IF Len(durations) = 0 \/ \E i \in 1..Len(durations) : durations[i].nan
    THEN NaN
    ELSE Num(Round(Total(durations, 1), Len(durations)))

\* percentageRel, in tenths of a percent:
\*   Math.round((rel.amount / caseIds.length) * 100)           (variant 1)
\*   Math.round(rel.amount / caseIds.length * 1000) / 10       (variants 2, 3)
Percentage(v, amount, n) ==
    IF n = 0 THEN Infinity
    ELSE IF v = 1 THEN 10 * Round(100 * amount, n) ELSE Round(1000 * amount, n)

EdgeOf(v, rel, n) ==
    [from |-> rel.from, to |-> rel.to, happy |-> rel.isHappyPath,
     pct |-> Percentage(v, rel.amount, n), amount |-> rel.amount, total |-> n,
     meanShown |-> v # 3,
     mean |-> IF v = 3 THEN NaN ELSE calculateDurationStatistics(rel.durations)]

\* if (percentageRel > this.relationShipPercentageThreshold): variant 2 only;
\* the threshold is in percent
PassesThreshold(v, rel, n, threshold) ==
    v # 2 \/ Percentage(v, rel.amount, n) > 10 * threshold

\* plotGraph (variant 1) / plotActivities (variants 2, 3)
plotGraph(v, map, opts) ==
    LET n == DistinctCaseCount(opts.rows)
        shown == {i \in 1..Len(map) : PassesThreshold(v, map[i], n, opts.threshold)}
        seen == {map[i].from : i \in shown} \cup {map[i].to : i \in shown}
        all == {opts.rows[i].from : i \in 1..Len(opts.rows)}
                  \cup {opts.rows[i].to : i \in 1..Len(opts.rows)}
    IN  [nodes |-> IF v = 3 THEN all ELSE seen,
         edges |-> {EdgeOf(v, map[i], n) : i \in shown}]

(***************************************************************************)
(* Path-signature mode (variant 4).                                        *)
(***************************************************************************)
\* fillActivityEvents(table), appending to this.activityEvents
fillActivityEvents(events, rows) ==
    events \o [i \in 1..Len(rows) |->
                 [caseId |-> rows[i].caseId, from |-> rows[i].from, to |-> rows[i].to]]

\* index of property `key` of the object memo, 0 when memo[key] is undefined
MemoIndex(memo, key) ==
    IF \E i \in 1..Len(memo) : memo[i].key = key
    THEN CHOOSE i \in 1..Len(memo) : memo[i].key = key
    ELSE 0

\* the reduce callback of groupBy for element x with property value key
GroupStep(memo, x, key) ==
    LET i == MemoIndex(memo, key)
    IN  IF i = 0
        THEN Append(memo, [key |-> key, items |-> <<x>>])
        ELSE [memo EXCEPT ![i].items = Append(@, x)]

RECURSIVE GroupFrom(_, _, _, _)
GroupFrom(memo, arr, keys, i) ==
    IF i > Len(arr) THEN memo
    ELSE GroupFrom(GroupStep(memo, arr[i], keys[i]), arr, keys, i + 1)

\* groupBy(arr, property): the object built, as its properties in creation
\* order; keys[i] is arr[i][property]
groupBy(arr, keys) == GroupFrom(<<>>, arr, keys, 1)

\* a property key that is an array index (a canonical non-negative integer)
IsArrayIndex(k) == k >= 0

RECURSIVE InsertByKey(_, _)
InsertByKey(sorted, e) ==
    IF sorted = <<>> THEN <<e>>
    ELSE IF e.key < Head(sorted).key THEN <<e>> \o sorted
         ELSE <<Head(sorted)>> \o InsertByKey(Tail(sorted), e)

RECURSIVE AscendingByKey(_)
AscendingByKey(seq) ==
    IF seq = <<>> THEN <<>>
    ELSE InsertByKey(AscendingByKey(Tail(seq)), Head(seq))

\* for (const k in obj) over an object keyed by numbers (caseId): array-index
\* keys come first in ascending numeric order, the other keys follow in
\* creation order
ForInNumberKeys(memo) ==
    AscendingByKey(SelectSeq(memo, LAMBDA e : IsArrayIndex(e.key)))
        \o SelectSeq(memo, LAMBDA e : ~IsArrayIndex(e.key))

\* for (const k in obj) over an object keyed by pathSorted strings: every key
\* ends in "#sep2#", none is an array index, so creation order
ForInStringKeys(memo) == memo

\* UTF-16 code unit of a character of the modelled alphabet
Code(c) ==
    CASE c = "#" -> 35 [] c = "," -> 44 [] c = "-" -> 45 [] c = "1" -> 49
      [] c = "2" -> 50 [] c = ">" -> 62 [] c = "A" -> 65 [] c = "B" -> 66
      [] c = "C" -> 67 [] c = "e" -> 101 [] c = "p" -> 112 [] c = "s" -> 115

CharAt(s, i) == SubSeq(s, i, i)

RECURSIVE StrLessFrom(_, _, _)
StrLessFrom(a, b, i) ==
    IF i > Len(a) THEN i <= Len(b)
    ELSE IF i > Len(b) THEN FALSE
    ELSE IF CharAt(a, i) = CharAt(b, i) THEN StrLessFrom(a, b, i + 1)
    ELSE Code(CharAt(a, i)) < Code(CharAt(b, i))

\* a < b as the default sort comparator orders strings (by code units)
StrLess(a, b) == StrLessFrom(a, b, 1)

RECURSIVE InsertString(_, _)
InsertString(sorted, s) ==
    IF sorted = <<>> THEN <<s>>
    ELSE IF StrLess(s, Head(sorted)) THEN <<s>> \o sorted
         ELSE <<Head(sorted)>> \o InsertString(Tail(sorted), s)

\* mutant of SortStrings: the array is joined in encounter order
SortStringsNone(arr) == arr

RECURSIVE SortStrings(_)
\* pathSortedArray.sort()
SortStrings(arr) ==
    IF arr = <<>> THEN <<>>
    ELSE InsertString(SortStrings(SubSeq(arr, 1, Len(arr) - 1)), arr[Len(arr)])

\* pathSortedArray.push(f.from + "#sep1#" + f.to)
PathElement(f) == f.from \o "#sep1#" \o f.to

RECURSIVE JoinPath(_, _)
\* reduce((accumulator, path) => accumulator + path + "#sep2#", '')
JoinPath(arr, i) ==
    IF i > Len(arr) THEN "" ELSE arr[i] \o "#sep2#" \o JoinPath(arr, i + 1)

\* the Case pushed for one caseId group
CaseOf(group) ==
    LET pathSortedArray == [i \in 1..Len(group.items) |-> PathElement(group.items[i])]
    IN  [caseId |-> group.items[1].caseId,
         pathSorted |-> JoinPath(SortStrings(pathSortedArray), 1)]

RECURSIVE InsertByLength(_, _)
InsertByLength(sorted, a) ==
    IF sorted = <<>> THEN <<a>>
    ELSE IF Len(a) > Len(Head(sorted)) THEN <<a>> \o sorted
         ELSE <<Head(sorted)>> \o InsertByLength(Tail(sorted), a)

RECURSIVE InsertBeforeTies(_, _)
InsertBeforeTies(sorted, a) ==
    IF sorted = <<>> THEN <<a>>
    ELSE IF Len(a) >= Len(Head(sorted)) THEN <<a>> \o sorted
         ELSE <<Head(sorted)>> \o InsertBeforeTies(Tail(sorted), a)

RECURSIVE SortByLengthUnstable(_)
\* mutant of SortByLength: a sort that reverses elements of equal length
SortByLengthUnstable(arr) ==
    IF arr = <<>> THEN <<>>
    ELSE InsertBeforeTies(SortByLengthUnstable(SubSeq(arr, 1, Len(arr) - 1)),
                          arr[Len(arr)])

RECURSIVE SortByLength(_)
\* caseIdArray.sort((a, b) => b.length - a.length): Array.prototype.sort is
\* stable, elements of equal length keep their order
SortByLength(arr) ==
    IF arr = <<>> THEN <<>>
    ELSE InsertByLength(SortByLength(SubSeq(arr, 1, Len(arr) - 1)), arr[Len(arr)])

\* the Case records sortActivityEvents pushes onto this.cases
CasesOf(events) ==
    LET grouped == ForInNumberKeys(
                       groupBy(events, [i \in 1..Len(events) |-> events[i].caseId]))
    IN  [i \in 1..Len(grouped) |-> CaseOf(grouped[i])]

\* caseIdArray before the sort: one array of caseIds per pathSorted group
CaseIdArray(cs) ==
    LET grouped == ForInStringKeys(
                       groupBy(cs, [i \in 1..Len(cs) |-> cs[i].pathSorted]))
    IN  [g \in 1..Len(grouped) |->
            [j \in 1..Len(grouped[g].items) |-> grouped[g].items[j].caseId]]

\* sortActivityEvents(): the new this.cases and this.sortedCaseIdsPerPath
sortActivityEvents(events, cs) ==
    LET cs2 == cs \o CasesOf(events)
    IN  [cases |-> cs2, sortedCaseIdsPerPath |-> SortByLength(CaseIdArray(cs2))]

\* g.setEdge(from, to, attrs): one edge per (from, to)
SetEdge(edges, e) ==
    {x \in edges : ~(x.from = e.from /\ x.to = e.to)} \cup {e}

\* freq[string] for the string of row i once rows 1..upto have been counted
Freq(rows, i, upto) ==
    Cardinality({j \in 1..upto : rows[j].from \o "#sep#" \o rows[j].to
                                   = rows[i].from \o "#sep#" \o rows[i].to})

PathEdge(rows, i, upto, happy) ==
    [from |-> rows[i].from, to |-> rows[i].to, happy |-> happy, pct |-> 0,
     amount |-> Freq(rows, i, upto), total |-> 0, meanShown |-> FALSE, mean |-> NaN]

RECURSIVE AllPaths(_, _, _)
\* "Construct all paths": every row sets its edge in the normal style
AllPaths(edges, rows, i) ==
    IF i > Len(rows) THEN edges
    ELSE AllPaths(SetEdge(edges, PathEdge(rows, i, i, FALSE)), rows, i + 1)

IndexOf(arr, x) == \E j \in 1..Len(arr) : arr[j] = x

RECURSIVE HappyPaths(_, _, _, _)
\* "Make happy path a different style": rows of the top-ranked group's cases
HappyPaths(edges, rows, sorted, i) ==
    IF i > Len(rows) THEN edges
    ELSE HappyPaths(
           IF IndexOf(sorted[1], rows[i].caseId)
           THEN SetEdge(edges, PathEdge(rows, i, Len(rows), TRUE))
           ELSE edges,
           rows, sorted, i + 1)

\* mutant of plotActivities: the happy style goes to the last-ranked group
plotActivitiesLastGroup(rows, sorted) ==
    [nodes |-> {rows[i].from : i \in 1..Len(rows)} \cup {rows[i].to : i \in 1..Len(rows)},
     edges |-> HappyPaths(AllPaths({}, rows, 1), rows,
                          IF sorted = <<>> THEN sorted ELSE <<sorted[Len(sorted)]>>, 1)]

\* plotActivities (variant 4)
plotActivities(rows, sorted) ==
    [nodes |-> {rows[i].from : i \in 1..Len(rows)} \cup {rows[i].to : i \in 1..Len(rows)},
     edges |-> HappyPaths(AllPaths({}, rows, 1), rows, sorted, 1)]

(***************************************************************************)
(* The update handlers.  `self` is the instance's fields; the result is    *)
(* the fields after the call.                                              *)
(***************************************************************************)
Message(kind, rowCount) == [kind |-> kind, rowCount |-> rowCount]

\* the fields after the constructor
Fresh(v) ==
    [relationships |-> <<>>, activityEvents |-> <<>>, cases |-> <<>>,
     sortedCaseIdsPerPath |-> <<>>,
     textNode |-> IF v = 1 THEN Message("updateCount", 0) ELSE Message("none", 0),
     graph |-> EmptyGraph, calls |-> <<>>, error |-> "none"]

\* fillRelationships then plotGraph / plotActivities, on a cleared map
Aggregate(v, self, map, opts) ==
    LET st == fillRelationships(v, map, opts.rows)
    IN  IF st.error # "none"
        THEN [self EXCEPT !.relationships = st.map,
                          !.calls = <<"fillRelationships">>,
                          !.error = st.error]
        ELSE [self EXCEPT !.relationships = st.map,
                          !.graph = plotGraph(v, st.map, opts),
                          !.calls = <<"fillRelationships", "plot">>,
                          !.error = "none"]

\* mutant of update1: the segment marker is ignored, every delivery is aggregated
update1Eager(self, opts) ==
    Aggregate(1, [self EXCEPT !.textNode = Message("allData", Len(opts.rows))],
              MapClear(self.relationships), opts)

\* update (variant 1): the fetch-aware handler
update1(self, opts) ==
    LET map == MapClear(self.relationships)
        rowCount == Len(opts.rows)
    IN  IF opts.segment
        THEN [self EXCEPT !.relationships = map,
                          !.textNode = IF opts.canFetchMore
                                       THEN Message("loading", rowCount)
                                       ELSE Message("memoryLimit", rowCount),
                          !.calls = <<"fetchMoreData">>,
                          !.error = "none"]
        ELSE Aggregate(1, [self EXCEPT !.textNode = Message("allData", rowCount)],
                       map, opts)

\* update (variants 2 and 3)
update23(v, self, opts) == Aggregate(v, self, MapClear(self.relationships), opts)

\* mutant of ResetArrays: the arrays of the previous update are kept
ResetArraysKeep(self) == self

\* this.activityEvents = []; this.cases = []; this.sortedCaseIdsPerPath = [];
ResetArrays(self) ==
    [self EXCEPT !.activityEvents = <<>>, !.cases = <<>>, !.sortedCaseIdsPerPath = <<>>]

\* update (variant 4)
update4(self, opts) ==
    LET s0 == ResetArrays(self)
        events == fillActivityEvents(s0.activityEvents, opts.rows)
        sorted == sortActivityEvents(events, s0.cases)
    IN  [s0 EXCEPT !.activityEvents = events,
                   !.cases = sorted.cases,
                   !.sortedCaseIdsPerPath = sorted.sortedCaseIdsPerPath,
                   !.graph = plotActivities(opts.rows, sorted.sortedCaseIdsPerPath),
                   !.calls = <<"fillActivityEvents", "sortActivityEvents", "plot">>,
                   !.error = "none"]

update(v, self, opts) ==
    CASE v = 1 -> update1(self, opts)
      [] v = 4 -> update4(self, opts)
      [] OTHER -> update23(v, self, opts)

(***************************************************************************)
(* The inputs the host delivers.                                           *)
(***************************************************************************)
Row(caseId, from, to, ihp, duration) ==
    [caseId |-> caseId, from |-> from, to |-> to, ihp |-> ihp, duration |-> duration]

Tables(rows, n) == UNION {[1..k -> rows] : k \in 0..n}

Options(rows, segment, canFetchMore) ==
    [rows |-> rows, segment |-> segment, canFetchMore |-> canFetchMore, threshold |-> 0]

\* the segment marker and the answer of host.fetchMoreData(), read by variant 1 only
Segments(v) ==
    IF v = 1 THEN {<<FALSE, FALSE>>, <<TRUE, TRUE>>, <<TRUE, FALSE>>}
    ELSE {<<FALSE, FALSE>>}

\* the flag and duration cells of a row
FlagCells == {<<BoolCell(TRUE), NumCell(5)>>, <<BoolCell(FALSE), NumCell(8)>>}
FlagCellsFill == FlagCells \cup {<<NullCell, NumCell(5)>>}

\* rows of the tables of Spec; variants 2 and 3 also meet an absent flag cell
SmallRows(v) ==
    {Row(1, "A", "B", BoolCell(TRUE), NumCell(5)),
     Row(2, "A", "B", BoolCell(FALSE), NumCell(8)),
     Row(1, "B", "C", IF v \in {2, 3} THEN NullCell ELSE BoolCell(FALSE), NumCell(8)),
     Row(2, "B", "C", BoolCell(TRUE), NumCell(5))}

\* rows of the tables of SpecFill: labels that contain the key separator
FillLabels(v) == IF v = 1 THEN {"A", "A,A"} ELSE {"A", "A->A"}

FillRowSet(v) ==
    {Row(c, t[1], t[2], f[1], f[2]) :
        c \in {1, 2},
        t \in {t \in FillLabels(v) \X FillLabels(v) : t[1] = "A" \/ t[2] = "A"},
        f \in FlagCellsFill}

\* rows of the tables of SpecPath
PathRowSet ==
    {Row(c, t[1], t[2], BoolCell(FALSE), NumCell(0)) :
        c \in {1, 2, 3, 4}, t \in {<<"A", "A">>, <<"A", "B">>, <<"B", "A">>}}

\* options whose settings carry graphSettings.relationShipPercentageThreshold
OptionsWith(rows, threshold) ==
    [Options(rows, FALSE, FALSE) EXCEPT !.threshold = threshold]

\* the thresholds of SpecRender; variant 3 parses no settings
Thresholds(v) == IF v = 3 THEN {0} ELSE {0, 50}

\* the duration cells of SpecRender: numbers and a non-numeric string
DurationCells == {NumCell(5), NumCell(8), StrCell("abc")}

\* rows of the tables of SpecRender
RenderRowSet ==
    {Row(c, t[1], t[2], BoolCell(FALSE), d) :
        c \in {1, 2, 3}, t \in {<<"A", "B">>, <<"B", "C">>}, d \in DurationCells}

\* the flag cells of SpecFlag: booleans, strings and an absent cell
FlagValues ==
    {BoolCell(TRUE), BoolCell(FALSE), StrCell("true"), StrCell("false"),
     StrCell("True"), NullCell}

\* rows of the tables of SpecFlag
FlagRowSet ==
    {Row(1, t[1], t[2], f, NumCell(5)) :
        t \in {<<"A", "B">>, <<"B", "C">>}, f \in FlagValues}

NoOptions == Options(<<>>, FALSE, FALSE)

(***************************************************************************)
(* State machine.                                                          *)
(***************************************************************************)
Self ==
    [relationships |-> relationships, activityEvents |-> activityEvents,
     cases |-> cases, sortedCaseIdsPerPath |-> sortedCaseIdsPerPath,
     textNode |-> textNode, graph |-> graph, calls |-> calls, error |-> error]

Construct(v) ==
    /\ variant = v
    /\ relationships = Fresh(v).relationships
    /\ activityEvents = Fresh(v).activityEvents
    /\ cases = Fresh(v).cases
    /\ sortedCaseIdsPerPath = Fresh(v).sortedCaseIdsPerPath
    /\ textNode = Fresh(v).textNode
    /\ graph = Fresh(v).graph
    /\ calls = Fresh(v).calls
    /\ error = Fresh(v).error

\* the host calls update(options)
Deliver(opts) ==
    \E r \in {update(variant, Self, opts)} :
        /\ relationships' = r.relationships
        /\ activityEvents' = r.activityEvents
        /\ cases' = r.cases
        /\ sortedCaseIdsPerPath' = r.sortedCaseIdsPerPath
        /\ textNode' = r.textNode
        /\ graph' = r.graph
        /\ calls' = r.calls
        /\ error' = r.error
        /\ options' = opts
        /\ pending' = FALSE
        /\ UNCHANGED variant

Init ==
    /\ \E v \in Variants : Construct(v)
    /\ options = NoOptions
    /\ pending = FALSE

Update1 ==
    /\ variant = 1 /\ ~pending
    /\ \E rows \in Tables(SmallRows(variant), MaxRows), sg \in Segments(1) :
          Deliver(Options(rows, sg[1], sg[2]))

Update2 ==
    /\ variant = 2 /\ ~pending
    /\ \E rows \in Tables(SmallRows(variant), MaxRows) : Deliver(Options(rows, FALSE, FALSE))

Update3 ==
    /\ variant = 3 /\ ~pending
    /\ \E rows \in Tables(SmallRows(variant), MaxRows) : Deliver(Options(rows, FALSE, FALSE))

Update4 ==
    /\ variant = 4 /\ ~pending
    /\ \E rows \in Tables(SmallRows(variant), MaxRows) : Deliver(Options(rows, FALSE, FALSE))

Next == Update1 \/ Update2 \/ Update3 \/ Update4

\* any sequence of update calls on one instance
Spec == Init /\ [][Next]_vars

\* the update call that delivers the options drawn at the start
UpdatePending == pending /\ Deliver(options)

InitFill ==
    /\ \E v \in {1, 2, 3} :
          /\ Construct(v)
          /\ \E rows \in Tables(FillRowSet(v), MaxRowsFill), sg \in Segments(v) :
                options = Options(rows, sg[1], sg[2])
    /\ pending = TRUE

\* one update of a fresh instance of variants 1-3 with any table
SpecFill == InitFill /\ [][UpdatePending]_vars

InitPath ==
    /\ Construct(4)
    /\ \E rows \in Tables(PathRowSet, MaxRowsPath) : options = Options(rows, FALSE, FALSE)
    /\ pending = TRUE

\* one update of a fresh instance of variant 4 with any table
SpecPath == InitPath /\ [][UpdatePending]_vars

InitRender ==
    /\ \E v \in {1, 2, 3} :
          /\ Construct(v)
          /\ \E rows \in Tables(RenderRowSet, MaxRowsRender), t \in Thresholds(v) :
                options = OptionsWith(rows, t)
    /\ pending = TRUE

\* one update of a fresh instance of variants 1-3 with any table, threshold
\* and duration cells
SpecRender == InitRender /\ [][UpdatePending]_vars

InitFlag ==
    /\ \E v \in {1, 2, 3} :
          /\ Construct(v)
          /\ \E rows \in Tables(FlagRowSet, MaxRowsFlag) :
                options = Options(rows, FALSE, FALSE)
    /\ pending = TRUE

\* one update of a fresh instance of variants 1-3 with any flag cells
SpecFlag == InitFlag /\ [][UpdatePending]_vars

(***************************************************************************)
(* Claims.                                                                 *)
(***************************************************************************)
\* the last update call ran to its end (Init has made no call yet)
Called == ~pending /\ calls # <<>>

Made(call) == \E i \in 1..Len(calls) : calls[i] = call

\* the number of times the last update call made `call`
Times(call) == Cardinality({i \in 1..Len(calls) : calls[i] = call})

RecordsDurations == variant \in {1, 2}

\* C1: count invariant.  After any sequence of update calls every Relationship
\* of the map has amount = length(caseIds), amount >= 1 and, in the variants
\* that record durations, amount = length(durations).
C1_CountInvariant ==
    \A i \in 1..Len(relationships) :
        LET rel == relationships[i]
        IN  /\ rel.amount >= 1
            /\ rel.amount = Len(rel.caseIds)
            /\ RecordsDurations => rel.amount = Len(rel.durations)

\* a second row has been accumulated into a Relationship that records durations
C1_Witness ==
    /\ Called /\ RecordsDurations
    /\ \E i \in 1..Len(relationships) :
          relationships[i].amount = 2 /\ Len(relationships[i].durations) = 2

\* C5 as claimed: an update with the segment marker set whose fetchMoreData()
\* returns false aggregates and renders the delivered table exactly once and
\* sets the memory-limit status message.
C5_MemoryCeilingAggregates ==
    (variant = 1 /\ Called /\ options.segment /\ ~options.canFetchMore) =>
        /\ Times("fillRelationships") = 1
        /\ Times("plot") = 1
        /\ relationships = fillRelationships(1, <<>>, options.rows).map
        /\ textNode.kind = "memoryLimit"

\* C6: deferral in the fetch-aware update.  A call whose data view carries the
\* segment marker requests continuation exactly once and neither aggregates
\* nor renders; a call without the marker does not call fetchMoreData and
\* aggregates, then renders, that call's table exactly once.
C6_Deferral ==
    (variant = 1 /\ Called) =>
        /\ options.segment =>
              /\ calls = <<"fetchMoreData">>
              /\ relationships = <<>>
        /\ ~options.segment =>
              /\ calls = <<"fillRelationships", "plot">>
              /\ relationships = fillRelationships(1, <<>>, options.rows).map
              /\ graph = plotGraph(1, relationships, options)

\* a non-final segment with rows was delivered after an earlier call had
\* rendered a graph, and only continuation was requested
C6_Witness ==
    /\ variant = 1 /\ Called
    /\ options.segment /\ options.canFetchMore /\ Len(options.rows) = 2
    /\ calls = <<"fetchMoreData">>
    /\ graph.edges # {}

\* the aggregation state of an instance
AggregationState(self) ==
    <<self.relationships, self.activityEvents, self.cases, self.sortedCaseIdsPerPath>>

\* C7: no cross-update persistence.  After any sequence of update calls the
\* aggregation state is the one a fresh instance reaches after a single update
\* with the options of the last call.
C7_NoPersistence ==
    Called =>
        AggregationState(Self)
            = AggregationState(update(variant, Fresh(variant), options))

\* an update threw midway after an earlier update had rendered a graph: the
\* map holds the one Relationship of the current table's first row only
C7_Witness ==
    /\ Called /\ variant = 2
    /\ error # "none"
    /\ graph.edges # {}
    /\ Len(options.rows) = 2
    /\ Len(relationships) = 1

\* fillRelationships ran to its end in the last update call
Aggregated == Called /\ Made("fillRelationships") /\ error = "none"

\* the rows of the last table with the given from and to, in row order
Matching(from, to) == SelectSeq(options.rows, LAMBDA r : r.from = from /\ r.to = to)

CaseIdsOf(rows) == [i \in 1..Len(rows) |-> rows[i].caseId]

DurationsOf(rows) == [i \in 1..Len(rows) |-> ToNumber(rows[i].duration)]

RECURSIVE SumAmount(_, _)
SumAmount(map, i) == IF i > Len(map) THEN 0 ELSE map[i].amount + SumAmount(map, i + 1)

\* C2 as claimed: for each transition (from, to) of the table there is one
\* Relationship with that from and to, whose amount is the number of rows with
\* that from and to and whose caseIds and durations are the cells of those
\* rows in row order; the amounts sum to the number of rows.
C2_RowsPerTransition ==
    Aggregated =>
        /\ \A i \in 1..Len(options.rows) :
              LET from == options.rows[i].from
                  to == options.rows[i].to
                  rels == {k \in 1..Len(relationships) :
                              relationships[k].from = from /\ relationships[k].to = to}
              IN  /\ Cardinality(rels) = 1
                  /\ \A k \in rels :
                        /\ relationships[k].amount = Len(Matching(from, to))
                        /\ relationships[k].caseIds = CaseIdsOf(Matching(from, to))
                        /\ RecordsDurations =>
                              relationships[k].durations = DurationsOf(Matching(from, to))
        /\ SumAmount(relationships, 1) = Len(options.rows)

\* the (from, to) pairs of the rows of the last table
RowPairs == {<<options.rows[i].from, options.rows[i].to>> : i \in 1..Len(options.rows)}

\* C3 as claimed: rows are accumulated into the same Relationship if and only
\* if their from labels are equal and their to labels are equal, so the
\* Relationships correspond one to one to the distinct (from, to) pairs.
C3_TransitionIdentity ==
    Aggregated =>
        /\ {<<relationships[k].from, relationships[k].to>> : k \in 1..Len(relationships)}
              = RowPairs
        /\ Len(relationships) = Cardinality(RowPairs)

\* the rows of the last table that the pass flagged happy under the given key
FlaggedRows(key) ==
    {i \in 1..Len(options.rows) :
        /\ Key(variant, options.rows[i].from, options.rows[i].to) = key
        /\ IsHappy(variant, options.rows[i].ihp)}

\* C4: after fillRelationships completes a Relationship has isHappyPath = TRUE
\* if and only if at least one row of the table with its key was flagged
\* happy, and the marking pass never looks up a key that is not in the map.
C4_HappyPathMarking ==
    /\ error # "TypeError: get(key) is undefined"
    /\ Aggregated =>
          \A k \in 1..Len(relationships) :
              relationships[k].isHappyPath <=> FlaggedRows(relationships[k].key) # {}

\* a Relationship of a flagged and an unflagged row is marked, another one
\* with no flagged row is not
C4_Witness ==
    /\ Aggregated
    /\ \E k, m \in 1..Len(relationships) :
          /\ relationships[k].isHappyPath
          /\ relationships[k].amount = 2
          /\ Cardinality(FlaggedRows(relationships[k].key)) = 1
          /\ ~relationships[m].isHappyPath

\* the (from, to) pairs of the rows of case c, in row order
CasePairs(c) ==
    LET rows == SelectSeq(options.rows, LAMBDA r : r.caseId = c)
    IN  [i \in 1..Len(rows) |-> <<rows[i].from, rows[i].to>>]

Occurrences(seq, x) == Cardinality({i \in 1..Len(seq) : seq[i] = x})

\* cases c and d have the same collection of transitions
SameTransitions(c, d) ==
    \A p \in RowPairs : Occurrences(CasePairs(c), p) = Occurrences(CasePairs(d), p)

\* some path group holds both c and d
SameGroup(c, d) ==
    \E g \in 1..Len(sortedCaseIdsPerPath) :
        /\ \E i \in 1..Len(sortedCaseIdsPerPath[g]) : sortedCaseIdsPerPath[g][i] = c
        /\ \E i \in 1..Len(sortedCaseIdsPerPath[g]) : sortedCaseIdsPerPath[g][i] = d

\* C8: path-signature order-independence.  Two cases whose collections of
\* (from, to) transitions are identical get identical pathSorted strings,
\* whatever the order of their rows, and are placed in the same path group.
C8_OrderIndependence ==
    Called =>
        \A i, j \in 1..Len(cases) :
            SameTransitions(cases[i].caseId, cases[j].caseId) =>
                /\ cases[i].pathSorted = cases[j].pathSorted
                /\ SameGroup(cases[i].caseId, cases[j].caseId)

\* two cases with the same two distinct transitions in opposite row order
C8_Witness ==
    /\ Called
    /\ \E i, j \in 1..Len(cases) :
          /\ i # j
          /\ SameTransitions(cases[i].caseId, cases[j].caseId)
          /\ CasePairs(cases[i].caseId) # CasePairs(cases[j].caseId)
          /\ cases[i].pathSorted = cases[j].pathSorted

\* the position in this.cases of the first Case of a path group
FirstSeen(group) ==
    CHOOSE k \in 1..Len(cases) :
        /\ \E i \in 1..Len(group) : group[i] = cases[k].caseId
        /\ \A m \in 1..(k - 1) : \A i \in 1..Len(group) : group[i] # cases[m].caseId

\* C9: ranking of path groups.  sortedCaseIdsPerPath lists the groups in
\* non-increasing order of member count, and groups of equal count keep the
\* order in which their signatures were first seen among the Case records.
C9_Ranking ==
    Called =>
        \A g, h \in 1..Len(sortedCaseIdsPerPath) :
            g < h =>
                /\ Len(sortedCaseIdsPerPath[g]) >= Len(sortedCaseIdsPerPath[h])
                /\ Len(sortedCaseIdsPerPath[g]) = Len(sortedCaseIdsPerPath[h]) =>
                      FirstSeen(sortedCaseIdsPerPath[g]) < FirstSeen(sortedCaseIdsPerPath[h])

\* groups of sizes [1, 1, 2] in first-seen order are ranked [2, 1, 1]
C9_Witness ==
    /\ Called
    /\ Len(sortedCaseIdsPerPath) = 3
    /\ Len(sortedCaseIdsPerPath[1]) = 2
    /\ Len(sortedCaseIdsPerPath[2]) = 1
    /\ Len(sortedCaseIdsPerPath[3]) = 1
    /\ FirstSeen(sortedCaseIdsPerPath[2]) < FirstSeen(sortedCaseIdsPerPath[3])
    /\ FirstSeen(sortedCaseIdsPerPath[3]) < FirstSeen(sortedCaseIdsPerPath[1])

RECURSIVE FirstSeenOrder(_, _)
\* the distinct elements of seq[i..] not in seq[1..i-1], by first occurrence
FirstSeenOrder(seq, i) ==
    IF i > Len(seq) THEN <<>>
    ELSE IF \E j \in 1..(i - 1) : seq[j] = seq[i] THEN FirstSeenOrder(seq, i + 1)
    ELSE <<seq[i]>> \o FirstSeenOrder(seq, i + 1)

\* C10 as claimed: the Case records, one per distinct caseId, are emitted in
\* the order in which each caseId first appears in the input rows.
C10_FirstSeenCaseOrder ==
    Called => CaseIdsOf(cases) = FirstSeenOrder(CaseIdsOf(options.rows), 1)

\* the caseIds of the top-ranked path group, sortedCaseIdsPerPath[0]
TopGroup ==
    {sortedCaseIdsPerPath[1][i] : i \in 1..Len(sortedCaseIdsPerPath[1])}

\* C11: happy-path edges in path-signature mode.  For every non-empty table
\* the rendered graph has one edge per transition of the table, and an edge
\* carries the happy style if and only if its transition occurs in a row whose
\* caseId belongs to the top-ranked path group.
C11_HappyEdges ==
    (variant = 4 /\ Called /\ Len(options.rows) > 0) =>
        /\ {<<e.from, e.to>> : e \in graph.edges} = RowPairs
        /\ Cardinality(graph.edges) = Cardinality(RowPairs)
        /\ \A e \in graph.edges :
              e.happy <=> \E i \in 1..Len(options.rows) :
                              /\ options.rows[i].from = e.from
                              /\ options.rows[i].to = e.to
                              /\ options.rows[i].caseId \in TopGroup

\* a graph with a happy edge and a normal edge, the normal one from a case
\* outside the top-ranked group of two cases
C11_Witness ==
    /\ variant = 4 /\ Called
    /\ Len(sortedCaseIdsPerPath) = 2
    /\ Len(sortedCaseIdsPerPath[1]) = 2
    /\ \E e, f \in graph.edges : e.happy /\ ~f.happy

\* the (from, to) pairs of the edges handed to the renderer
EdgePairs == {<<e.from, e.to>> : e \in graph.edges}

\* the percentage-of-cases of a Relationship of the last table, in tenths
PercentageOf(rel) == Percentage(variant, rel.amount, DistinctCaseCount(options.rows))

\* C12 as claimed: with the configured threshold t the rendered edges are
\* exactly the relationships whose percentage-of-cases is not below t.
C12_ThresholdFilter ==
    (variant \in {1, 2} /\ Aggregated) =>
        EdgePairs = {<<relationships[k].from, relationships[k].to>> :
                        k \in {k \in 1..Len(relationships) :
                                  PercentageOf(relationships[k]) >= 10 * options.threshold}}

\* the string form of a present flag cell is exactly "true"
FlagIsTrue(cell) == cell.t # "null" /\ CellToString(cell) = "true"

\* C13 as claimed: every row of the table is aggregated, absent flag cells
\* included, and a Relationship is marked happy if and only if some row with
\* its from and to has a flag cell whose string form is exactly "true".
C13_FlagCoercion ==
    (variant \in {1, 2, 3} /\ ~pending) =>
        /\ error = "none"
        /\ SumAmount(relationships, 1) = Len(options.rows)
        /\ \A k \in 1..Len(relationships) :
              relationships[k].isHappyPath <=>
                  \E i \in 1..Len(options.rows) :
                      /\ options.rows[i].from = relationships[k].from
                      /\ options.rows[i].to = relationships[k].to
                      /\ FlagIsTrue(options.rows[i].ihp)

\* the duration samples of the rows of a transition that are numbers
NumericSamples(from, to) ==
    SelectSeq(DurationsOf(Matching(from, to)), LAMBDA d : ~d.nan)

\* C14 as claimed: the mean duration in an edge's label is sum/count (rounded
\* as the label rounds it) over the numeric duration samples of the edge's
\* rows only, and the label carries no mean duration when there is none.
C14_MeanDuration ==
    (RecordsDurations /\ Aggregated) =>
        \A e \in graph.edges :
            LET samples == NumericSamples(e.from, e.to)
            IN  IF samples = <<>>
                THEN ~e.meanShown
                ELSE /\ e.meanShown
                     /\ e.mean = Num(Round(Total(samples, 1), Len(samples)))

\* C15: empty dataset.  An update with a table of zero rows completes without
\* error in every variant and leaves an empty relationships map, no cases and
\* no ranked groups; whenever it reaches the renderer, which every call that
\* is not a segment call of variant 1 does, the graph it hands over has no
\* nodes and no edges.
C15_EmptyDataset ==
    (Called /\ options.rows = <<>>) =>
        /\ error = "none"
        /\ relationships = <<>>
        /\ activityEvents = <<>>
        /\ cases = <<>>
        /\ sortedCaseIdsPerPath = <<>>
        /\ Made("plot") => graph = EmptyGraph
        /\ ~(variant = 1 /\ options.segment) => Made("plot")

\* path-signature mode rendered the empty graph from a table of zero rows
C15_Witness ==
    /\ Called /\ variant = 4
    /\ options.rows = <<>>
    /\ Made("sortActivityEvents") /\ Made("plot")
    /\ sortedCaseIdsPerPath = <<>>
    /\ graph = EmptyGraph

\* C16 as claimed: the percentage-of-cases of every rendered edge lies between
\* 0 and 100 inclusive (pct is in tenths of a percent).
C16_PercentageRange ==
    (variant \in {1, 2, 3} /\ Aggregated) =>
        \A e \in graph.edges : e.pct >= 0 /\ e.pct <= 1000

====
